---- MODULE Spec2Model ----
(***************************************************************************)
(* A model of src/app.py: the task-submission / polling engine of the      *)
(* image editor (create_task, check_task_status, poll_task_until_complete, *)
(* the SeedDream and Qwen submit handlers, the History tab's Check Status) *)
(* and the statistics and task ledger kept in st.session_state; the Google *)
(* Drive functions (authenticate_with_service_account, create_app_folder,  *)
(* upload_to_gdrive, list_gdrive_images, delete_gdrive_file) with the      *)
(* sidebar and Library tab that call them; the History tab's filter.       *)
(*                                                                         *)
(* Spec is the session without a Drive connection, HistorySpec adds the    *)
(* History tab's select boxes, PollSpec is the poller alone, DriveSpec is  *)
(* the session with the Drive connection and the SeedDream form, ListSpec  *)
(* connects to a Drive that already holds files.                           *)
(*                                                                         *)
(* Python dicts are functions from key strings to values; a missing key is *)
(* a key outside the DOMAIN.  A JSON-encoded string is the pair            *)
(* <<"json", value>>, which json.loads decodes.  An f-string is the        *)
(* concatenation of its parts.  One script run of a handler is cut at the  *)
(* poller: the press up to the poll call, each pass of the poller's loop,  *)
(* and the rest of the handler are steps; no other handler runs between.   *)
(***************************************************************************)
EXTENDS Integers, Sequences, FiniteSets, TLC

VARIABLES
    task_history,   \* st.session_state.task_history: the task ledger
    stats,          \* st.session_state.stats
    remote,         \* the provider's jobs: taskId -> the job's record as the
                    \* client last saw it (waiting before the first fetch)
    presses,        \* Generate presses of the session so far
    created,        \* the running handler's create_task call: the provider's
                    \* response and `result`, the value create_task returned
    pc,             \* "idle" | "poll" (inside the poller's loop) | "polled"
    form,           \* the handler that is running: "seedream" | "qwen" | "direct" | "none"
    task_id,        \* the running handler's task_id
    max_attempts,   \* the poller's max_attempts argument
    attempt,        \* the poller's loop variable: attempts finished
    progress_bar,   \* the poller's progress bar: <<n, d>> for n/d, <<>> once emptied
    status_text,    \* the poller's status line
    poll_result,    \* the poller's return value, NoResult before it returns
    fetches,        \* calls of check_task_status made by the running poll
    sleeps,         \* calls of time.sleep(delay) made by the running poll
    returns,        \* return statements the running poll has executed
    only_waiting,   \* every attempt that kept polling saw state "waiting"
    only_errors,    \* every attempt that kept polling saw a failed fetch
    last_seen,      \* what the latest attempt saw
    last_emitted,   \* the progress values the latest attempt emitted, in order
    shown,          \* per task_id, what its handler ended with: poll_result
                    \* and result_urls
    authenticated,  \* st.session_state.authenticated
    service,        \* st.session_state.service: None or the Drive client
    credentials,    \* st.session_state.credentials
    gdrive_folder_id, \* st.session_state.gdrive_folder_id: None or a folder id
    auto_upload,    \* st.session_state.auto_upload
    library_images, \* st.session_state.library_images: the cached listing
    generated_images, \* st.session_state.generated_images
    upload_queue,   \* st.session_state.upload_queue
    drive,          \* Google Drive: every file it ever created, in creation order
    requests,       \* the requests the latest step issued, in order
    returned,       \* the calls of the storage functions the latest step
                    \* made, in order of return, and what each returned
    reports,        \* per result URL, what the latest result loop reported
    history_view    \* the History tab's query of the latest step, if it made one

vars == <<task_history, stats, remote, presses, created, pc, form, task_id, max_attempts,
          attempt, progress_bar, status_text, poll_result, fetches, sleeps,
          returns, only_waiting, only_errors, last_seen, last_emitted, shown,
          authenticated, service, credentials, gdrive_folder_id, auto_upload,
          library_images, generated_images, upload_queue, drive, requests,
          returned, reports, history_view>>

\* the storage session and what it caches
sessionVars == <<authenticated, service, credentials, auto_upload>>

storeVars == <<gdrive_folder_id, library_images, generated_images, upload_queue, drive>>

\* what the task engine keeps
taskVars == <<task_history, remote, presses, created, pc, form, task_id, shown>>

pollVars == <<max_attempts, attempt, progress_bar, status_text, poll_result,
              fetches, sleeps, returns, only_waiting, only_errors, last_seen,
              last_emitted>>

(***************************************************************************)
(* Bounds of the model.                                                    *)
(***************************************************************************)
\* Generate presses in one session
MaxPresses == 2
\* the largest attempt budget of a poll inside a session; the poller on its
\* own also runs with the callers' budgets, 60 and 40
MaxAttempts == 3
\* Generate presses in one session that uses the Drive connection
MaxArchives == 1
\* app folders Drive ever holds: one less is how often the folder is
\* removed out of band
MaxFolders == 2
\* files of any kind in the app folder of a Drive whose listing is checked
MaxFiles == 2

(***************************************************************************)
(* Python values.                                                          *)
(***************************************************************************)
EmptyDict == <<>>

\* str(n)
Str(n) == ToString(n)

\* d.get(k, default)
Get(d, k, default) == IF k \in DOMAIN d THEN d[k] ELSE default

\* json.loads of a JSON-encoded string
JsonLoads(s) == s[2]

\* json.dumps
JsonDumps(v) == <<"json", v>>

Min(a, b) == IF a <= b THEN a ELSE b

\* None where the other values are strings (ids, the service, the credentials)
None == "None"

\* None where the other values are dicts
NoneResult == [none |-> TRUE]

\* s[:n]
Take(s, n) == SubSeq(s, 1, Min(n, Len(s)))

\* s[::-1]
Reversed(s) == [i \in 1..Len(s) |-> s[Len(s) + 1 - i]]

\* p <= q for two bar values n/d
FracLeq(p, q) == p[1] * q[2] <= q[1] * p[2]


(***************************************************************************)
(* The generation provider (api.kie.ai), as the client sees it.            *)
(***************************************************************************)
SeedDreamModel == "bytedance/seedream-v4-edit"
QwenModel == "qwen/image-edit"

\* A job's record ("data" of recordInfo) in each provider state.  "queuing"
\* stands for every provider state other than waiting, success and fail.
WaitingJobs == {[state |-> "waiting"], [state |-> "queuing"]}

SuccessJobs ==
    {[state |-> "success"]} \cup
    {[state |-> "success", resultJson |-> JsonDumps(r)] :
        r \in {[resultUrls |-> <<>>],
               [resultUrls |-> <<"https://e/out.png">>],
               [resultUrls |-> <<"https://e/a.png", "https://e/b.png">>]}}

FailJobs == {[state |-> "fail"], [state |-> "fail", failMsg |-> "nsfw content"]}

\* The records the provider may hold for a job once it held j: a finished
\* job (success, fail) keeps its record, an unfinished one may have moved on.
JobNext(j) ==
    IF j.state \in {"success", "fail"} THEN {j}
    ELSE WaitingJobs \cup SuccessJobs \cup FailJobs

\* The id the provider gives its next job.
NextTaskId == "task" \o Str(Cardinality(DOMAIN remote) + 1)

\* What one POST /createTask may come back with: the request raising, a
\* transport status other than 200, or a 200 whose body carries the
\* application code.
CreateResponses ==
    {[raised |-> "Read timed out"],
     [status_code |-> 500, body |-> [code |-> 500, msg |-> "Server error"]],
     [status_code |-> 200, body |-> [code |-> 402, msg |-> "Insufficient credits"]],
     [status_code |-> 200, body |-> [code |-> 402]],
     [status_code |-> 200,
      body |-> [code |-> 200, msg |-> "success", data |-> [recordId |-> "r1"]]],
     [status_code |-> 200,
      body |-> [code |-> 200, msg |-> "success", data |-> [taskId |-> NextTaskId]]]}

\* What one GET /recordInfo may come back with for a job whose record was j
\* when the client last saw it: a failure, or the job's record as it is now.
StatusResponses(j) ==
    {[raised |-> "Read timed out"],
     [status_code |-> 500, body |-> [code |-> 500, msg |-> "Server error"]],
     [status_code |-> 200, body |-> [code |-> 401, msg |-> "Unauthorized"]]}
    \cup {[status_code |-> 200, body |-> [code |-> 200, msg |-> "success", data |-> now]] :
            now \in JobNext(j)}

\* the job's record after a fetch: the one the response carried, if any
Seen(j, resp) ==
    IF "raised" \notin DOMAIN resp /\ "data" \in DOMAIN resp.body
    THEN resp.body.data
    ELSE j

\* response.text: the body as sent
Text(resp) == Str(resp.body)

\* str(KeyError(k))
KeyError(k) == "'" \o k \o "'"

(***************************************************************************)
(* create_task                                                             *)
(***************************************************************************)
CreateTaskCountedOnRefusal(resp) ==
    /\ "raised" \notin DOMAIN resp
    /\ resp.status_code = 200
    /\ Get(resp.body, "code", 0) # 200

\* create_task reached line 335, st.session_state.stats['total_tasks'] += 1
CreateTaskCounted(resp) ==
    /\ "raised" \notin DOMAIN resp
    /\ resp.status_code = 200
    /\ Get(resp.body, "code", 0) = 200

\* create_task's return value
create_task_no_msg(resp) ==
    IF "raised" \in DOMAIN resp
    THEN [success |-> FALSE, error |-> resp.raised]
    ELSE IF resp.status_code = 200
    THEN LET data == resp.body IN
         IF Get(data, "code", 0) = 200
         THEN IF "data" \notin DOMAIN data
              THEN [success |-> FALSE, error |-> KeyError("data")]
              ELSE IF "taskId" \notin DOMAIN data.data
              THEN [success |-> FALSE, error |-> KeyError("taskId")]
              ELSE [success |-> TRUE, task_id |-> data.data.taskId]
         ELSE [success |-> FALSE, error |-> "Unknown error"]
    ELSE [success |-> FALSE,
          error |-> "HTTP " \o Str(resp.status_code) \o ": " \o Str(resp.body)]

create_task(resp) ==
    IF "raised" \in DOMAIN resp
    THEN [success |-> FALSE, error |-> resp.raised]
    ELSE IF resp.status_code = 200
    THEN LET data == resp.body IN
         IF Get(data, "code", 0) = 200
         THEN IF "data" \notin DOMAIN data
              THEN [success |-> FALSE, error |-> KeyError("data")]
              ELSE IF "taskId" \notin DOMAIN data.data
              THEN [success |-> FALSE, error |-> KeyError("taskId")]
              ELSE [success |-> TRUE, task_id |-> data.data.taskId]
         ELSE [success |-> FALSE, error |-> Get(data, "msg", "Unknown error")]
    ELSE [success |-> FALSE,
          error |-> "HTTP " \o Str(resp.status_code) \o ": " \o Text(resp)]

(***************************************************************************)
(* check_task_status                                                       *)
(***************************************************************************)
check_task_status(resp) ==
    IF "raised" \in DOMAIN resp
    THEN [success |-> FALSE, error |-> resp.raised]
    ELSE IF resp.status_code = 200
    THEN LET data == resp.body IN
         IF Get(data, "code", 0) = 200
         THEN IF "data" \notin DOMAIN data
              THEN [success |-> FALSE, error |-> KeyError("data")]
              ELSE [success |-> TRUE, data |-> data.data]
         ELSE [success |-> FALSE, error |-> Get(data, "msg", "Unknown error")]
    ELSE [success |-> FALSE, error |-> "HTTP " \o Str(resp.status_code)]


(***************************************************************************)
(* poll_task_until_complete                                                *)
(***************************************************************************)
\* no return value yet
NoResult == [returned |-> FALSE]

\* the one request of create_task (line 325) and of check_task_status (351)
CreateTaskRequest == [api |-> "POST /createTask", by |-> "create_task", call |-> 1]

StatusRequest(id) ==
    [api |-> "GET /recordInfo", by |-> "check_task_status", call |-> 1, taskId |-> id]

\* the step made no History query
NoView == [queried |-> FALSE]

\* the arguments delay=2 of both callers, and the callers' max_attempts
Delay == 2
SeedDreamMaxAttempts == 60
QwenMaxAttempts == 40

\* Lines 371-372 and the loop's start: a bar at 0, an empty status line.
StartPoll(f, id, m) ==
    /\ pc' = "poll"
    /\ form' = f
    /\ task_id' = id
    /\ max_attempts' = m
    /\ attempt' = 0
    /\ progress_bar' = <<0, 1>>
    /\ status_text' = ""
    /\ poll_result' = NoResult
    /\ fetches' = 0
    /\ sleeps' = 0
    /\ returns' = 0
    /\ only_waiting' = TRUE
    /\ only_errors' = TRUE
    /\ last_seen' = "none"
    /\ last_emitted' = <<>>

\* for attempt in range(max_attempts): the loop body runs once more
LoopRunsShort(a, m) == a < m - 1

LoopRunsLong(a, m) == a <= m

LoopRuns(a, m) == a < m

\* the three return values, lines 388, 392 and 401
PollSuccessBare(task_data) == [success |-> TRUE, data |-> [state |-> task_data.state]]

PollSuccess(task_data) == [success |-> TRUE, data |-> task_data]

PollFail(task_data) ==
    [success |-> FALSE,
     error |-> Get(task_data, "failMsg", "Unknown error"),
     data |-> task_data]

PollTimedOut == [success |-> FALSE, error |-> "Timeout reached"]

ProgressUncapped(a, m) == <<(a + 1) * 100, 100 * m>>

\* progress = min((attempt + 1) / max_attempts, 0.95), as the fraction n/d
Progress(a, m) == <<Min((a + 1) * 100, 95 * m), 100 * m>>

\* the bar at 1.0
FullBar == <<1, 1>>

\* time.sleep(delay), lines 394 and 397: one more sleep of the poll
time_sleep_skipped(n) == n

time_sleep(n) == n + 1

\* One pass of the loop body, lines 375-397: one status fetch, then the
\* progress update and either a return (success, fail) or a sleep.
PollAttempt ==
    /\ pc = "poll"
    /\ LoopRuns(attempt, max_attempts)
    /\ \E resp \in StatusResponses(remote[task_id]) :
        LET result == check_task_status(resp) IN
        /\ remote' = [remote EXCEPT ![task_id] = Seen(@, resp)]
        /\ fetches' = fetches + 1
        /\ IF result.success
           THEN LET task_data == result.data
                    state == task_data.state
                    progress == Progress(attempt, max_attempts)
                IN  /\ last_seen' = state
                    /\ IF state = "success"
                       THEN /\ progress_bar' = FullBar
                            /\ last_emitted' = <<progress, FullBar>>
                            /\ status_text' = "Task completed successfully!"
                            /\ poll_result' = PollSuccess(task_data)
                            /\ returns' = returns + 1
                            /\ pc' = "polled"
                            /\ UNCHANGED <<attempt, sleeps, only_waiting, only_errors>>
                       ELSE IF state = "fail"
                       THEN /\ progress_bar' = <<>>
                            /\ last_emitted' = <<progress>>
                            /\ status_text' = "Task failed"
                            /\ poll_result' = PollFail(task_data)
                            /\ returns' = returns + 1
                            /\ pc' = "polled"
                            /\ UNCHANGED <<attempt, sleeps, only_waiting, only_errors>>
                       ELSE /\ progress_bar' = progress
                            /\ last_emitted' = <<progress>>
                            /\ status_text' = "Status: " \o state \o " | Attempt "
                                 \o Str(attempt + 1) \o "/" \o Str(max_attempts)
                            /\ sleeps' = time_sleep(sleeps)
                            /\ attempt' = attempt + 1
                            /\ only_waiting' = (only_waiting /\ state = "waiting")
                            /\ only_errors' = FALSE
                            /\ UNCHANGED <<poll_result, returns, pc>>
           ELSE /\ last_seen' = "error"
                /\ last_emitted' = <<>>
                /\ status_text' = "Error checking status: " \o result.error
                /\ sleeps' = time_sleep(sleeps)
                /\ attempt' = attempt + 1
                /\ only_waiting' = FALSE
                /\ UNCHANGED <<progress_bar, poll_result, returns, pc, only_errors>>
    /\ requests' = <<StatusRequest(task_id)>>
    /\ returned' = <<>>
    /\ reports' = <<>>
    /\ history_view' = NoView
    /\ UNCHANGED <<task_history, stats, presses, created, form, task_id,
                   max_attempts, shown>>
    /\ UNCHANGED <<sessionVars, storeVars>>

\* The loop is exhausted, lines 399-401.
PollTimeout ==
    /\ pc = "poll"
    /\ ~LoopRuns(attempt, max_attempts)
    /\ progress_bar' = <<>>
    /\ status_text' = "Timeout reached"
    /\ poll_result' = PollTimedOut
    /\ returns' = returns + 1
    /\ pc' = "polled"
    /\ requests' = <<>>
    /\ returned' = <<>>
    /\ reports' = <<>>
    /\ history_view' = NoView
    /\ UNCHANGED <<task_history, stats, remote, presses, created, form, task_id,
                   max_attempts, attempt, fetches, sleeps, only_waiting,
                   only_errors, last_seen, last_emitted, shown>>
    /\ UNCHANGED <<sessionVars, storeVars>>


(***************************************************************************)
(* Google Drive, as the client sees it, and the four storage functions.    *)
(* A function of the program that calls others and issues requests is an   *)
(* operator from the world it starts in to the world it leaves and its     *)
(* return value; fault names the request (if any) that raises.             *)
(***************************************************************************)
FolderMime == "application/vnd.google-apps.folder"
AppFolderName == "AI_Image_Editor_Pro"

\* the MIME types of the listing's query, line 281
ImageMimes == {"image/png", "image/jpeg", "image/webp"}

\* pageSize of the two files().list calls, lines 196 and 284
FolderPageSize == 1
PageSize == 100

\* the requests that may raise: the folder search and the folder create of
\* create_app_folder, the download and the file create of upload_to_gdrive,
\* the listing and the delete
Faults == {"none", "folder.list", "folder.create", "download", "upload",
           "images.list", "delete"}

\* a file as Drive holds it; createdTime is its place in creation order
NewFile(d, name, mimeType, parents) ==
    [id |-> "id" \o Str(Len(d) + 1), name |-> name, mimeType |-> mimeType,
     parents |-> parents, createdTime |-> Len(d) + 1,
     trashed |-> FALSE, deleted |-> FALSE]

\* q of line 193
IsAppFolder(f) ==
    /\ ~f.deleted
    /\ f.name = AppFolderName
    /\ f.mimeType = FolderMime
    /\ ~f.trashed

IsImageInTrashedToo(f, folder_id) ==
    /\ ~f.deleted
    /\ \E k \in 1..Len(f.parents) : f.parents[k] = folder_id
    /\ f.mimeType \in ImageMimes

\* q of line 281
IsImageIn(f, folder_id) ==
    /\ ~f.deleted
    /\ \E k \in 1..Len(f.parents) : f.parents[k] = folder_id
    /\ ~f.trashed
    /\ f.mimeType \in ImageMimes

\* fields='files(id, name, ..., createdTime, ...)' of line 283
Listed(f) == [id |-> f.id, name |-> f.name, createdTime |-> f.createdTime]

\* the session state and the provider a script run works on
World ==
    [service |-> service, gdrive_folder_id |-> gdrive_folder_id,
     uploaded_images |-> stats.uploaded_images, drive |-> drive,
     requests |-> <<>>, returned |-> <<>>, calls |-> 0]

\* request.execute() and requests.get(): the request goes out once, and
\* raises or is answered
ExecuteRetrying(w, req, failed) ==
    LET sent == ("failed" :> failed) @@ req IN
    [w EXCEPT !.requests = IF failed THEN @ \o <<sent, sent>> ELSE Append(@, sent)]

Execute(w, req, failed) ==
    [w EXCEPT !.requests = Append(@, ("failed" :> failed) @@ req)]

\* return ret, from call number me of function by
Return(w, by, me, args, ret) ==
    [w |-> [w EXCEPT !.returned =
                Append(@, [by |-> by, call |-> me, args |-> args, ret |-> ret])],
     ret |-> ret]

\* the function's parameters when it has none
NoArgs == <<>>

create_app_folder_unconditional(w, fault) ==
    LET me == w.calls + 1
        w0 == [w EXCEPT !.calls = me]
        w2 == Execute(w0, [api |-> "files.create", by |-> "create_app_folder",
                           call |-> me, name |-> AppFolderName, mimeType |-> FolderMime],
                      fault = "folder.create")
        folder == NewFile(w.drive, AppFolderName, FolderMime, <<>>)
    IN  IF w.service = None
        THEN Return(w0, "create_app_folder", me, NoArgs, None)
        ELSE IF fault = "folder.create"
        THEN Return(w2, "create_app_folder", me, NoArgs, None)
        ELSE Return([w2 EXCEPT !.drive = Append(@, folder),
                               !.gdrive_folder_id = folder.id],
                    "create_app_folder", me, NoArgs, folder.id)

create_app_folder(w, fault) ==
    LET me == w.calls + 1
        w0 == [w EXCEPT !.calls = me]
        w1 == Execute(w0, [api |-> "files.list", by |-> "create_app_folder",
                           call |-> me, name |-> AppFolderName, mimeType |-> FolderMime],
                      fault = "folder.list")
        files == Take(SelectSeq(w.drive, IsAppFolder), FolderPageSize)
        w2 == Execute(w1, [api |-> "files.create", by |-> "create_app_folder",
                           call |-> me, name |-> AppFolderName, mimeType |-> FolderMime],
                      fault = "folder.create")
        folder == NewFile(w.drive, AppFolderName, FolderMime, <<>>)
    IN  IF w.service = None
        THEN Return(w0, "create_app_folder", me, NoArgs, None)
        ELSE IF fault = "folder.list"
        THEN Return(w1, "create_app_folder", me, NoArgs, None)
        ELSE IF files # <<>>
        THEN Return([w1 EXCEPT !.gdrive_folder_id = files[1].id],
                    "create_app_folder", me, NoArgs, files[1].id)
        ELSE IF fault = "folder.create"
        THEN Return(w2, "create_app_folder", me, NoArgs, None)
        ELSE Return([w2 EXCEPT !.drive = Append(@, folder),
                               !.gdrive_folder_id = folder.id],
                    "create_app_folder", me, NoArgs, folder.id)

\* folder_id = st.session_state.gdrive_folder_id or create_app_folder()
FolderIdOrCreate(w, fault) ==
    IF w.gdrive_folder_id # None
    THEN [w |-> w, ret |-> w.gdrive_folder_id]
    ELSE create_app_folder(w, fault)

upload_to_gdrive(w, image_url, file_name, task, fault) ==
    LET me == w.calls + 1
        args == [image_url |-> image_url, file_name |-> file_name, task_id |-> task]
        w0 == [w EXCEPT !.calls = me]
        looked == FolderIdOrCreate(w0, fault)
        folder_id == looked.ret
        w2 == Execute(looked.w, [api |-> "GET", by |-> "upload_to_gdrive",
                                 call |-> me, url |-> image_url],
                      fault = "download")
        w3 == Execute(w2, [api |-> "files.create", by |-> "upload_to_gdrive",
                           call |-> me, name |-> file_name,
                           parents |-> <<folder_id>>, mimeType |-> "image/png"],
                      fault = "upload")
        file == NewFile(looked.w.drive, file_name, "image/png", <<folder_id>>)
    IN  IF w.service = None
        THEN Return(w0, "upload_to_gdrive", me, args, NoneResult)
        ELSE IF folder_id = None
        THEN Return(looked.w, "upload_to_gdrive", me, args, NoneResult)
        ELSE IF fault = "download"
        THEN Return(w2, "upload_to_gdrive", me, args, NoneResult)
        ELSE IF fault = "upload"
        THEN Return(w3, "upload_to_gdrive", me, args, NoneResult)
        ELSE Return([w3 EXCEPT !.drive = Append(@, file),
                               !.uploaded_images = @ + 1],
                    "upload_to_gdrive", me, args,
                    [file_id |-> file.id, file_name |-> file_name,
                     task_id |-> task, original_url |-> image_url])

list_gdrive_images(w, fault) ==
    LET me == w.calls + 1
        w0 == [w EXCEPT !.calls = me]
        looked == FolderIdOrCreate(w0, fault)
        folder_id == looked.ret
        \* Drive answers 404 to a query on a parent it does not know ('None')
        raises == (fault = "images.list" \/ folder_id = None)
        w2 == Execute(looked.w, [api |-> "files.list", by |-> "list_gdrive_images",
                                 call |-> me, parent |-> folder_id],
                      raises)
        files == SelectSeq(looked.w.drive, LAMBDA f : IsImageIn(f, folder_id))
    IN  IF w.service = None
        THEN Return(w0, "list_gdrive_images", me, NoArgs, <<>>)
        ELSE IF raises
        THEN Return(w2, "list_gdrive_images", me, NoArgs, <<>>)
        ELSE Return(w2, "list_gdrive_images", me, NoArgs,
                    Take(Reversed([i \in 1..Len(files) |-> Listed(files[i])]),
                         PageSize))

delete_gdrive_file(w, file_id, fault) ==
    LET me == w.calls + 1
        args == [file_id |-> file_id]
        w0 == [w EXCEPT !.calls = me]
        found == \E k \in 1..Len(w.drive) :
                    w.drive[k].id = file_id /\ ~w.drive[k].deleted
        w1 == Execute(w0, [api |-> "files.delete", by |-> "delete_gdrive_file",
                           call |-> me, fileId |-> file_id],
                      fault = "delete" \/ ~found)
    IN  IF w.service = None
        THEN Return(w0, "delete_gdrive_file", me, args, FALSE)
        ELSE IF fault = "delete" \/ ~found
        THEN Return(w1, "delete_gdrive_file", me, args, FALSE)
        ELSE Return([w1 EXCEPT !.drive =
                        [k \in 1..Len(@) |->
                            IF @[k].id = file_id
                            THEN [@[k] EXCEPT !.deleted = TRUE]
                            ELSE @[k]]],
                    "delete_gdrive_file", me, args, TRUE)

(***************************************************************************)
(* The task ledger and the submit handlers.                                *)
(***************************************************************************)
Prompts == {"x"}

\* task_record, lines 833-840 and 1082-1089
TaskRecord(id, model, prompt, now) ==
    [task_id |-> id, model |-> model, timestamp |-> now, status |-> "waiting",
     prompt |-> prompt]

\* st.session_state.task_history.append(task_record), lines 842 and 1091
AppendTaskRecordOnce(h, task_record) ==
    IF \E i \in 1..Len(h) :
            h[i].model = task_record.model /\ h[i].prompt = task_record.prompt
    THEN h
    ELSE Append(h, task_record)

AppendTaskRecord(h, task_record) == Append(h, task_record)

\* for task in task_history: if task["task_id"] == id: task["status"] = s; break
FirstWithId(h, id) ==
    IF \E i \in 1..Len(h) : h[i].task_id = id
    THEN CHOOSE i \in 1..Len(h) :
            /\ h[i].task_id = id
            /\ \A k \in 1..(i - 1) : h[k].task_id # id
    ELSE 0

UpdateTaskStatusEvery(h, id, s) ==
    [k \in 1..Len(h) |-> [h[k] EXCEPT !.status = s]]

UpdateTaskStatus(h, id, s) ==
    LET i == FirstWithId(h, id) IN
    IF i = 0 THEN h ELSE [h EXCEPT ![i].status = s]

\* result_urls of lines 868-869 and 1113-1114
ResultUrls(task_data) ==
    LET result_json == JsonLoads(Get(task_data, "resultJson", JsonDumps(EmptyDict)))
    IN  Get(result_json, "resultUrls", <<>>)

\* no create_task call in this script run
NoCall == [called |-> FALSE]

\* The handler's script run is over: its widgets and locals are gone.
EndRun ==
    /\ created' = NoCall
    /\ pc' = "idle"
    /\ form' = "none"
    /\ task_id' = ""
    /\ max_attempts' = 0
    /\ attempt' = 0
    /\ progress_bar' = <<>>
    /\ status_text' = ""
    /\ poll_result' = NoResult
    /\ fetches' = 0
    /\ sleeps' = 0
    /\ returns' = 0
    /\ only_waiting' = TRUE
    /\ only_errors' = TRUE
    /\ last_seen' = "none"
    /\ last_emitted' = <<>>

\* The Library tab of a script run, lines 1172-1199: the listing is loaded
\* when the session is authenticated and the cache is empty.
LibraryFaults(auth, images) ==
    IF auth /\ images = <<>>
    THEN {"none", "folder.list", "folder.create", "images.list"}
    ELSE {"none"}

LibraryTab(w, auth, images, fault) ==
    IF auth /\ images = <<>>
    THEN LET listed == list_gdrive_images(w, fault)
         IN  [w |-> listed.w, images |-> listed.ret]
    ELSE [w |-> w, images |-> images]

\* The script run is over: what it left in the session state and at Drive.
EndScript(w, images) ==
    /\ gdrive_folder_id' = w.gdrive_folder_id
    /\ drive' = w.drive
    /\ requests' = w.requests
    /\ returned' = w.returned
    /\ library_images' = images

\* The press of a Generate button up to the call of the poller: create_task,
\* and on success the ledger entry (lines 824-842 and 1073-1091).  On failure
\* the script run goes on to its end.
\* failed_on_error: the SeedDream form counts a creation failure (line 942).
Generate(f, model, m, failed_on_error) ==
    /\ pc = "idle"
    /\ presses < MaxPresses
    /\ presses' = presses + 1
    /\ \E resp \in CreateResponses : \E prompt \in Prompts :
        LET result == create_task(resp)
            counted == IF CreateTaskCounted(resp) THEN 1 ELSE 0
            posted == [World EXCEPT !.requests = <<CreateTaskRequest>>, !.calls = 1]
        IN  /\ created' = [response |-> resp, result |-> result]
            /\ IF result.success
               THEN /\ remote' = (result.task_id :> [state |-> "waiting"]) @@ remote
                    /\ stats' = [stats EXCEPT !.total_tasks = @ + counted]
                    /\ task_history' = AppendTaskRecord(task_history,
                           TaskRecord(result.task_id, model, prompt, presses + 1))
                    /\ StartPoll(f, result.task_id, m)
                    /\ requests' = posted.requests
                    /\ returned' = posted.returned
                    /\ UNCHANGED <<shown, gdrive_folder_id, drive, library_images>>
               ELSE /\ stats' = [stats EXCEPT
                                    !.total_tasks = @ + counted,
                                    !.failed_tasks =
                                        @ + (IF failed_on_error THEN 1 ELSE 0)]
                    /\ \E fault \in LibraryFaults(authenticated, library_images) :
                        LET tab == LibraryTab(posted, authenticated, library_images, fault)
                        IN  EndScript(tab.w, tab.images)
                    /\ UNCHANGED <<task_history, remote, pc, form, task_id, shown>>
                    /\ UNCHANGED pollVars
    /\ reports' = <<>>
    /\ history_view' = NoView
    /\ UNCHANGED <<sessionVars, generated_images, upload_queue>>

\* The max_attempts a handler passes.  A session polls with the caller's
\* budget cut to MaxAttempts; PollSpec runs the poller with 60 and 40.
Budget(m) == Min(m, MaxAttempts)

SeedDreamGenerate ==
    Generate("seedream", SeedDreamModel, Budget(SeedDreamMaxAttempts), TRUE)

QwenGenerate ==
    Generate("qwen", QwenModel, Budget(QwenMaxAttempts), FALSE)

\* What the running handler holds when it ends: poll_result, whose error
\* it shows (lines 932, 1159), and result_urls.
Held(result, urls) ==
    task_id :> [poll_result |-> result, result_urls |-> urls]

\* the result URLs the handler goes through, none on a failed poll
LoopUrls == IF poll_result.success THEN ResultUrls(poll_result.data) ELSE <<>>

\* requests.get(url) for the download button, lines 887 and 1133
DownloadButton(w, url) ==
    [w EXCEPT !.requests =
        Append(@, [api |-> "GET", by |-> "download_button", call |-> 0, url |-> url])]

\* lines 908-909: a failed upload is reported, and nothing is queued
UploadFailedQueued(queue, url) == Append(queue, url)

UploadFailed(queue, url) == queue

\* the requests of one auto-upload that may raise
UploadFaults ==
    IF authenticated /\ auto_upload
    THEN {"none", "folder.list", "folder.create", "download", "upload"}
    ELSE {"none"}

\* f"SeedDream_{datetime.now().strftime('%Y%m%d_%H%M%S')}_{idx}.png"
SeedDreamFileName(now, idx) ==
    "SeedDream_" \o Str(now) \o "_" \o Str(idx) \o ".png"

\* for idx, url in enumerate(result_urls), lines 879-916, from idx on.  The
\* manual Upload button of line 911 is drawn, never pressed: a press starts
\* a script run in which generate_btn is False.
RECURSIVE SeedDreamResultsAborting(_, _, _, _)
SeedDreamResultsAborting(acc, urls, idx, faults) ==
    IF idx >= Len(urls) THEN acc
    ELSE LET url == urls[idx + 1]
             shownw == DownloadButton(acc.w, url)
             up == upload_to_gdrive(shownw, url, SeedDreamFileName(presses, idx),
                                    task_id, faults[idx + 1])
         IN  IF authenticated /\ auto_upload
             THEN IF up.ret # NoneResult
                  THEN SeedDreamResultsAborting(
                         [acc EXCEPT
                            !.w = up.w,
                            !.generated_images = Append(@, up.ret),
                            !.reports = Append(@, [url |-> url, uploaded |-> TRUE])],
                         urls, idx + 1, faults)
                  ELSE [acc EXCEPT
                            !.w = up.w,
                            !.reports = Append(@, [url |-> url, uploaded |-> FALSE])]
             ELSE SeedDreamResultsAborting([acc EXCEPT !.w = shownw],
                                           urls, idx + 1, faults)

RECURSIVE SeedDreamResults(_, _, _, _)
SeedDreamResults(acc, urls, idx, faults) ==
    IF idx >= Len(urls) THEN acc
    ELSE LET url == urls[idx + 1]
             shownw == DownloadButton(acc.w, url)
             up == upload_to_gdrive(shownw, url, SeedDreamFileName(presses, idx),
                                    task_id, faults[idx + 1])
         IN  IF authenticated /\ auto_upload
             THEN IF up.ret # NoneResult
                  THEN SeedDreamResults(
                         [acc EXCEPT
                            !.w = up.w,
                            !.generated_images = Append(@, up.ret),
                            !.reports = Append(@, [url |-> url, uploaded |-> TRUE])],
                         urls, idx + 1, faults)
                  ELSE SeedDreamResults(
                         [acc EXCEPT
                            !.w = up.w,
                            !.upload_queue = UploadFailed(@, url),
                            !.reports = Append(@, [url |-> url, uploaded |-> FALSE])],
                         urls, idx + 1, faults)
             ELSE SeedDreamResults([acc EXCEPT !.w = shownw], urls, idx + 1, faults)

\* for idx, url in enumerate(result_urls), lines 1129-1150.  The Upload to
\* Drive button of line 1145 is drawn, never pressed, as above.
RECURSIVE QwenResults(_, _, _)
QwenResults(acc, urls, idx) ==
    IF idx >= Len(urls) THEN acc
    ELSE QwenResults([acc EXCEPT !.w = DownloadButton(@, urls[idx + 1])],
                     urls, idx + 1)

\* what a result loop starts with
StartLoop ==
    [w |-> World, generated_images |-> generated_images,
     upload_queue |-> upload_queue, reports |-> <<>>]

\* the result loop is over and the script run goes on to its end
EndHandler(loop, counted) ==
    /\ \E fault \in LibraryFaults(authenticated, library_images) :
        LET tab == LibraryTab(loop.w, authenticated, library_images, fault)
        IN  /\ EndScript(tab.w, tab.images)
            /\ stats' = [counted EXCEPT !.uploaded_images = tab.w.uploaded_images]
    /\ generated_images' = loop.generated_images
    /\ upload_queue' = loop.upload_queue
    /\ reports' = loop.reports
    /\ history_view' = NoView

\* The rest of the SeedDream handler, lines 856-939, and of its script run.
SeedDreamFinish ==
    /\ pc = "polled"
    /\ form = "seedream"
    /\ \E faults \in [1..Len(LoopUrls) -> UploadFaults] :
        LET loop == SeedDreamResults(StartLoop, LoopUrls, 0, faults) IN
        IF poll_result.success
        THEN /\ task_history' = UpdateTaskStatus(task_history, task_id, "success")
             /\ shown' = Held(poll_result, ResultUrls(poll_result.data)) @@ shown
             /\ EndHandler(loop, [stats EXCEPT !.successful_tasks = @ + 1])
        ELSE /\ task_history' = UpdateTaskStatus(task_history, task_id, "fail")
             /\ shown' = Held(poll_result, <<>>) @@ shown
             /\ EndHandler(loop, [stats EXCEPT !.failed_tasks = @ + 1])
    /\ EndRun
    /\ UNCHANGED <<remote, presses, sessionVars>>

\* The rest of the Qwen handler, lines 1103-1160, and of its script run.
QwenFinish ==
    /\ pc = "polled"
    /\ form = "qwen"
    /\ LET loop == QwenResults(StartLoop, LoopUrls, 0) IN
       IF poll_result.success
       THEN /\ task_history' = UpdateTaskStatus(task_history, task_id, "success")
            /\ shown' = Held(poll_result, ResultUrls(poll_result.data)) @@ shown
            /\ EndHandler(loop, [stats EXCEPT !.successful_tasks = @ + 1])
       ELSE /\ shown' = Held(poll_result, <<>>) @@ shown
            /\ EndHandler(loop, [stats EXCEPT !.failed_tasks = @ + 1])
            /\ UNCHANGED task_history
    /\ EndRun
    /\ UNCHANGED <<remote, presses, sessionVars>>

\* History tab, Check Status on the i-th entry, lines 1403-1414, in a script
\* run that has passed the Library tab.
CheckStatus(i) ==
    /\ pc = "idle"
    /\ i \in 1..Len(task_history)
    /\ LET task == task_history[i] IN
       \E resp \in StatusResponses(remote[task.task_id]) :
        LET result == check_task_status(resp) IN
        /\ remote' = [remote EXCEPT ![task.task_id] = Seen(@, resp)]
        /\ IF result.success
           THEN task_history' =
                  [task_history EXCEPT ![i].status = Get(result.data, "state", task.status)]
           ELSE UNCHANGED task_history
        /\ \E fault \in LibraryFaults(authenticated, library_images) :
            LET tab == LibraryTab(World, authenticated, library_images, fault)
                w == [tab.w EXCEPT !.requests = Append(@, StatusRequest(task.task_id))]
            IN  EndScript(w, tab.images)
    /\ created' = NoCall
    /\ reports' = <<>>
    /\ history_view' = NoView
    /\ UNCHANGED <<stats, presses, pc, form, task_id, shown>>
    /\ UNCHANGED <<sessionVars, generated_images, upload_queue>>
    /\ UNCHANGED pollVars


(***************************************************************************)
(* The History tab's query.                                                *)
(***************************************************************************)
\* the options of the three select boxes, lines 1312-1327
FilterModels == {"All Models", "SeedDream V4", "Qwen Edit"}
FilterStatuses == {"All Status", "Success", "Waiting", "Failed"}
SortOrders == {"Newest First", "Oldest First"}

\* lines 1343-1346
model_map ==
    ("SeedDream V4" :> SeedDreamModel) @@ ("Qwen Edit" :> QwenModel)

status_map_failed ==
    ("Success" :> "success") @@ ("Waiting" :> "waiting") @@ ("Failed" :> "failed")

\* lines 1350-1354
status_map ==
    ("Success" :> "success") @@ ("Waiting" :> "waiting") @@ ("Failed" :> "fail")

\* filtered of lines 1340-1361, a list of its own
HistoryFilter(h, filter_model, filter_status, sort_order) ==
    LET copy == h
        of_model ==
            IF filter_model # "All Models"
            THEN SelectSeq(copy, LAMBDA t :
                    Get(t, "model", None) = Get(model_map, filter_model, None))
            ELSE copy
        of_status ==
            IF filter_status # "All Status"
            THEN SelectSeq(of_model, LAMBDA t :
                    Get(t, "status", None) = Get(status_map, filter_status, None))
            ELSE of_model
    IN  IF sort_order = "Oldest First" THEN of_status ELSE Reversed(of_status)

\* A select box of the History tab is set, lines 1309-1363: the script runs
\* again, passes the Library tab and shows the filtered ledger.
HistoryQuery ==
    /\ pc = "idle"
    /\ task_history # <<>>
    /\ \E filter_model \in FilterModels, filter_status \in FilterStatuses,
          sort_order \in SortOrders :
        history_view' =
            [filter_model |-> filter_model, filter_status |-> filter_status,
             sort_order |-> sort_order,
             filtered |-> HistoryFilter(task_history, filter_model,
                                        filter_status, sort_order)]
    /\ \E fault \in LibraryFaults(authenticated, library_images) :
        LET tab == LibraryTab(World, authenticated, library_images, fault)
        IN  EndScript(tab.w, tab.images)
    /\ created' = NoCall
    /\ reports' = <<>>
    /\ UNCHANGED <<task_history, stats, remote, presses, pc, form, task_id, shown>>
    /\ UNCHANGED <<sessionVars, generated_images, upload_queue>>
    /\ UNCHANGED pollVars

(***************************************************************************)
(* The sidebar's Drive connection and the Library tab.                     *)
(***************************************************************************)
\* the uploaded service account files: a key, and a JSON object that is none
CredentialMaterials ==
    {[type |-> "service_account", private_key |-> "key1"],
     [type |-> "service_account"]}

\* what str(e) of line 183 may be: from_service_account_info raising on a
\* file without a key, build raising
MalformedError == "Service account info was not in the expected format"
BuildError == "name: drive  version: v3"

\* build('drive', 'v3', credentials=credentials) raises or not
AuthFaults == {"none", "build"}

authenticate_assigning_early(sess, service_account_json, fault) ==
    IF "private_key" \notin DOMAIN service_account_json
    THEN [sess |-> sess, ret |-> <<FALSE, "Authentication failed: " \o MalformedError>>]
    ELSE IF fault = "build"
    THEN [sess |-> [sess EXCEPT !.credentials = "credentials"],
          ret |-> <<FALSE, "Authentication failed: " \o BuildError>>]
    ELSE [sess |-> [credentials |-> "credentials", service |-> "drive.v3",
                    authenticated |-> TRUE],
          ret |-> <<TRUE, "Successfully authenticated with Google Drive">>]

\* lines 170-183; sess holds credentials, service and authenticated
authenticate_with_service_account(sess, service_account_json, fault) ==
    IF "private_key" \notin DOMAIN service_account_json
    THEN [sess |-> sess, ret |-> <<FALSE, "Authentication failed: " \o MalformedError>>]
    ELSE IF fault = "build"
    THEN [sess |-> sess, ret |-> <<FALSE, "Authentication failed: " \o BuildError>>]
    ELSE [sess |-> [credentials |-> "credentials", service |-> "drive.v3",
                    authenticated |-> TRUE],
          ret |-> <<TRUE, "Successfully authenticated with Google Drive">>]

\* the call of line 466 and what it returned, in the log of calls
Authenticated(w, service_account_json, ret) ==
    [w EXCEPT !.returned =
        Append(@, [by |-> "authenticate_with_service_account", call |-> 0,
                   args |-> [service_account_json |-> service_account_json],
                   ret |-> ret])]

\* A service account file is put into the uploader, lines 456-482; on
\* success st.rerun() starts the script again, now authenticated.
Connect ==
    /\ pc = "idle"
    /\ ~authenticated
    /\ \E json \in CredentialMaterials : \E authfault \in AuthFaults :
        LET auth == authenticate_with_service_account(
                        [credentials |-> credentials, service |-> service,
                         authenticated |-> authenticated], json, authfault)
            called == Authenticated(World, json, auth.ret)
        IN  /\ credentials' = auth.sess.credentials
            /\ service' = auth.sess.service
            /\ authenticated' = auth.sess.authenticated
            /\ IF auth.ret[1]
               THEN \E fault \in {"none", "folder.list", "folder.create"} :
                    LET made == create_app_folder(
                                    [called EXCEPT !.service = auth.sess.service], fault)
                    IN  \E libfault \in LibraryFaults(TRUE, library_images) :
                        LET tab == LibraryTab(made.w, TRUE, library_images, libfault)
                        IN  EndScript(tab.w, tab.images)
               ELSE EndScript(called, library_images)
    /\ created' = NoCall
    /\ reports' = <<>>
    /\ history_view' = NoView
    /\ UNCHANGED <<task_history, stats, remote, presses, pc, form, task_id, shown>>
    /\ UNCHANGED <<auto_upload, generated_images, upload_queue>>
    /\ UNCHANGED pollVars

DisconnectForgetting ==
    /\ pc = "idle"
    /\ authenticated
    /\ authenticated' = FALSE
    /\ service' = None
    /\ credentials' = None
    /\ gdrive_folder_id' = None
    /\ library_images' = <<>>
    /\ created' = NoCall
    /\ requests' = <<>>
    /\ returned' = <<>>
    /\ reports' = <<>>
    /\ history_view' = NoView
    /\ UNCHANGED <<task_history, stats, remote, presses, pc, form, task_id, shown>>
    /\ UNCHANGED <<auto_upload, generated_images, upload_queue, drive>>
    /\ UNCHANGED pollVars

\* The Disconnect button, lines 500-504.
Disconnect ==
    /\ pc = "idle"
    /\ authenticated
    /\ authenticated' = FALSE
    /\ service' = None
    /\ credentials' = None
    /\ created' = NoCall
    /\ requests' = <<>>
    /\ returned' = <<>>
    /\ reports' = <<>>
    /\ history_view' = NoView
    /\ UNCHANGED <<task_history, stats, remote, presses, pc, form, task_id, shown>>
    /\ UNCHANGED <<auto_upload, storeVars>>
    /\ UNCHANGED pollVars

\* The Auto Upload checkbox is flipped, lines 488-493.
ToggleAutoUpload ==
    /\ pc = "idle"
    /\ authenticated
    /\ auto_upload' = ~auto_upload
    /\ \E fault \in LibraryFaults(authenticated, library_images) :
        LET tab == LibraryTab(World, authenticated, library_images, fault)
        IN  EndScript(tab.w, tab.images)
    /\ created' = NoCall
    /\ reports' = <<>>
    /\ history_view' = NoView
    /\ UNCHANGED <<task_history, stats, remote, presses, pc, form, task_id, shown>>
    /\ UNCHANGED <<authenticated, service, credentials, generated_images, upload_queue>>
    /\ UNCHANGED pollVars

\* A Refresh button, the sidebar's (lines 496-498) or the Library tab's
\* (1189-1192): the listing is fetched, and the Library tab fetches it again
\* when it came back empty.
Refresh ==
    /\ pc = "idle"
    /\ authenticated
    /\ \E fault \in {"none", "folder.list", "folder.create", "images.list"} :
        LET listed == list_gdrive_images(World, fault)
        IN  \E libfault \in LibraryFaults(authenticated, listed.ret) :
            LET tab == LibraryTab(listed.w, authenticated, listed.ret, libfault)
            IN  EndScript(tab.w, tab.images)
    /\ created' = NoCall
    /\ reports' = <<>>
    /\ history_view' = NoView
    /\ UNCHANGED <<task_history, stats, remote, presses, pc, form, task_id, shown>>
    /\ UNCHANGED <<sessionVars, generated_images, upload_queue>>
    /\ UNCHANGED pollVars

\* The delete button of the i-th cached image, lines 1254-1258 and
\* 1291-1295; the st.rerun() after a delete finds the cache filled.
LibraryDelete(i) ==
    /\ pc = "idle"
    /\ authenticated
    /\ i \in 1..Len(library_images)
    /\ \E fault \in {"none", "delete"} :
        LET deleted == delete_gdrive_file(World, library_images[i].id, fault)
        IN  EndScript(deleted.w, library_images)
    /\ created' = NoCall
    /\ reports' = <<>>
    /\ history_view' = NoView
    /\ UNCHANGED <<task_history, stats, remote, presses, pc, form, task_id, shown>>
    /\ UNCHANGED <<sessionVars, generated_images, upload_queue>>
    /\ UNCHANGED pollVars

\* Out of band, the owner of the Drive trashes the app folder; what is in
\* it goes to the trash with it.
TrashFolder ==
    /\ Len(SelectSeq(drive, LAMBDA f : f.mimeType = FolderMime)) < MaxFolders
    /\ \E k \in 1..Len(drive) :
        /\ IsAppFolder(drive[k])
        /\ drive' = [j \in 1..Len(drive) |->
                        IF j = k \/ (\E n \in 1..Len(drive[j].parents) :
                                        drive[j].parents[n] = drive[k].id)
                        THEN [drive[j] EXCEPT !.trashed = TRUE]
                        ELSE drive[j]]
    /\ requests' = <<>>
    /\ returned' = <<>>
    /\ reports' = <<>>
    /\ history_view' = NoView
    /\ UNCHANGED <<taskVars, stats, sessionVars, gdrive_folder_id, library_images,
                   generated_images, upload_queue>>
    /\ UNCHANGED pollVars

(***************************************************************************)
(* The session.                                                            *)
(***************************************************************************)
\* lines 141-157: no storage session, nothing cached
InitStore ==
    /\ authenticated = FALSE
    /\ service = None
    /\ credentials = None
    /\ gdrive_folder_id = None
    /\ auto_upload = TRUE
    /\ library_images = <<>>
    /\ generated_images = <<>>
    /\ upload_queue = <<>>
    /\ requests = <<>>
    /\ returned = <<>>
    /\ reports = <<>>
    /\ history_view = NoView

InitStats ==
    [total_tasks |-> 0, successful_tasks |-> 0, failed_tasks |-> 0,
     total_images |-> 0, uploaded_images |-> 0]

Init ==
    /\ task_history = <<>>
    /\ stats = InitStats
    /\ remote = <<>>
    /\ presses = 0
    /\ created = NoCall
    /\ pc = "idle"
    /\ form = "none"
    /\ task_id = ""
    /\ max_attempts = 0
    /\ attempt = 0
    /\ progress_bar = <<>>
    /\ status_text = ""
    /\ poll_result = NoResult
    /\ fetches = 0
    /\ sleeps = 0
    /\ returns = 0
    /\ only_waiting = TRUE
    /\ only_errors = TRUE
    /\ last_seen = "none"
    /\ last_emitted = <<>>
    /\ shown = <<>>
    /\ InitStore
    /\ drive = <<>>

Next ==
    \/ SeedDreamGenerate
    \/ QwenGenerate
    \/ PollAttempt
    \/ PollTimeout
    \/ SeedDreamFinish
    \/ QwenFinish
    \/ \E i \in 1..Len(task_history) : CheckStatus(i)

Spec == Init /\ [][Next]_vars

(***************************************************************************)
(* The session, with the History tab's select boxes in use.                *)
(***************************************************************************)
NextHistory ==
    \/ Next
    \/ HistoryQuery

HistorySpec == Init /\ [][NextHistory]_vars

(***************************************************************************)
(* The poller on its own: poll_task_until_complete(api_key, "task1", m)    *)
(* for a job the provider holds, with every budget m of PollBudgets.       *)
(***************************************************************************)
PollBudgets == (0..MaxAttempts) \cup {QwenMaxAttempts, SeedDreamMaxAttempts}

InitPoll ==
    /\ InitStore
    /\ drive = <<>>
    /\ task_history = <<>>
    /\ stats = InitStats
    /\ remote = ("task1" :> [state |-> "waiting"])
    /\ presses = 0
    /\ created = NoCall
    /\ shown = <<>>
    /\ pc = "poll"
    /\ form = "direct"
    /\ task_id = "task1"
    /\ max_attempts \in PollBudgets
    /\ attempt = 0
    /\ progress_bar = <<0, 1>>
    /\ status_text = ""
    /\ poll_result = NoResult
    /\ fetches = 0
    /\ sleeps = 0
    /\ returns = 0
    /\ only_waiting = TRUE
    /\ only_errors = TRUE
    /\ last_seen = "none"
    /\ last_emitted = <<>>

NextPoll ==
    \/ PollAttempt
    \/ PollTimeout

PollSpec == InitPoll /\ [][NextPoll]_vars

\* The loop is synchronous code: a request ends within its 30 s timeout and
\* a sleep within its delay, so a poll that can take a step takes it.
PollFairSpec == PollSpec /\ WF_vars(NextPoll)

(***************************************************************************)
(* A session that uses the Drive connection, the SeedDream form and the    *)
(* Library tab.                                                            *)
(***************************************************************************)
\* Drive as the session finds it: empty, or holding the app folder that an
\* earlier session made
InitialDrives == {<<>>, <<NewFile(<<>>, AppFolderName, FolderMime, <<>>)>>}

InitDrive ==
    /\ task_history = <<>>
    /\ stats = InitStats
    /\ remote = <<>>
    /\ presses = 0
    /\ created = NoCall
    /\ pc = "idle"
    /\ form = "none"
    /\ task_id = ""
    /\ max_attempts = 0
    /\ attempt = 0
    /\ progress_bar = <<>>
    /\ status_text = ""
    /\ poll_result = NoResult
    /\ fetches = 0
    /\ sleeps = 0
    /\ returns = 0
    /\ only_waiting = TRUE
    /\ only_errors = TRUE
    /\ last_seen = "none"
    /\ last_emitted = <<>>
    /\ shown = <<>>
    /\ InitStore
    /\ drive \in InitialDrives

\* a press of the SeedDream form's Generate button
ArchiveGenerate ==
    /\ presses < MaxArchives
    /\ SeedDreamGenerate

NextDrive ==
    \/ Connect
    \/ Disconnect
    \/ ToggleAutoUpload
    \/ Refresh
    \/ \E i \in 1..Len(library_images) : LibraryDelete(i)
    \/ TrashFolder
    \/ ArchiveGenerate
    \/ PollAttempt
    \/ PollTimeout
    \/ SeedDreamFinish

DriveSpec == InitDrive /\ [][NextDrive]_vars

(***************************************************************************)
(* The listing: a session that connects to a Drive whose app folder holds  *)
(* files of every kind, and lists them.                                    *)
(***************************************************************************)
\* what a file in Drive may be: the three MIME types of the query, another
\* image type, a text file; trashed or not; in the app folder or elsewhere
FileKinds ==
    [mimeType : ImageMimes \cup {"image/gif", "text/plain"},
     trashed : BOOLEAN, inside : {TRUE}]
    \cup {[mimeType |-> "image/png", trashed |-> FALSE, inside |-> FALSE]}

\* Drive holding the app folder and, made after it, one file per kind
DriveOf(kinds) ==
    <<NewFile(<<>>, AppFolderName, FolderMime, <<>>)>> \o
    [i \in 1..Len(kinds) |->
        [id |-> "id" \o Str(i + 1), name |-> "file" \o Str(i),
         mimeType |-> kinds[i].mimeType,
         parents |-> IF kinds[i].inside THEN <<"id1">> ELSE <<"root">>,
         createdTime |-> i + 1, trashed |-> kinds[i].trashed, deleted |-> FALSE]]

Png == [mimeType |-> "image/png", trashed |-> FALSE, inside |-> TRUE]

\* up to MaxFiles files of any kind; 3 PNG files and 1 text file; a page
\* of PNG files and one more
ListedDrives ==
    {DriveOf(kinds) : kinds \in UNION {[1..n -> FileKinds] : n \in 0..MaxFiles}}
    \cup {DriveOf(<<Png, Png, Png,
                    [mimeType |-> "text/plain", trashed |-> FALSE, inside |-> TRUE]>>)}
    \cup {DriveOf([i \in 1..n |-> Png]) : n \in {PageSize, PageSize + 1}}

InitList ==
    /\ task_history = <<>>
    /\ stats = InitStats
    /\ remote = <<>>
    /\ presses = 0
    /\ created = NoCall
    /\ pc = "idle"
    /\ form = "none"
    /\ task_id = ""
    /\ max_attempts = 0
    /\ attempt = 0
    /\ progress_bar = <<>>
    /\ status_text = ""
    /\ poll_result = NoResult
    /\ fetches = 0
    /\ sleeps = 0
    /\ returns = 0
    /\ only_waiting = TRUE
    /\ only_errors = TRUE
    /\ last_seen = "none"
    /\ last_emitted = <<>>
    /\ shown = <<>>
    /\ InitStore
    /\ drive \in ListedDrives

NextList ==
    \/ Connect
    \/ Disconnect
    \/ Refresh

ListSpec == InitList /\ [][NextList]_vars

(***************************************************************************)
(* The vocabulary of the properties.                                       *)
(***************************************************************************)
\* The job status of the specification that a ledger status stands for: the
\* ledger writes "fail" where the specification says failed.
JobStatus(s) == IF s = "fail" THEN "failed" ELSE s

JobStatuses == {"pending", "waiting", "success", "failed", "timeout"}

IsTerminal(s) == JobStatus(s) \in {"success", "failed", "timeout"}

\* the recorded status of job id
StatusOf(id) == task_history[FirstWithId(task_history, id)].status

\* a job's result URL list and failure reason, as its handler ended with them
JobResultUrls(id) ==
    IF id \in DOMAIN shown THEN shown[id].result_urls ELSE <<>>

HasFailureReason(id) ==
    /\ id \in DOMAIN shown
    /\ "error" \in DOMAIN shown[id].poll_result

\* the poll of job id ended on the exhausted budget / on the provider's fail
TimedOut(id) == id \in DOMAIN shown /\ shown[id].poll_result = PollTimedOut

ProviderFailed(id) ==
    /\ id \in DOMAIN shown
    /\ "data" \in DOMAIN shown[id].poll_result
    /\ shown[id].poll_result.data.state = "fail"

(***************************************************************************)
(* C1.  Once a job's recorded status is terminal (success, failed or       *)
(* timeout), no later step of the session changes it.                      *)
(* Fails: Check Status writes the provider's current state over the        *)
(* status of a job whose poll ran out of attempts.                         *)
(***************************************************************************)
C1_TerminalStatusIsFinal ==
    [][\A i \in 1..Len(task_history) :
         IsTerminal(task_history[i].status) =>
            /\ i <= Len(task_history')
            /\ task_history'[i].status = task_history[i].status]_vars

(***************************************************************************)
(* C2.  In every reachable state, for every job of the ledger: its result  *)
(* URL list is non-empty iff its status is success, and it has a failure   *)
(* reason iff its status is failed or timeout.                             *)
(* Fails: the status is set to success before resultJson is read.          *)
(***************************************************************************)
C2_ResultsAndReasonMatchStatus ==
    \A i \in 1..Len(task_history) :
        LET t == task_history[i] IN
        /\ (JobResultUrls(t.task_id) # <<>>) <=> (JobStatus(t.status) = "success")
        /\ HasFailureReason(t.task_id) <=> (JobStatus(t.status) \in {"failed", "timeout"})

(***************************************************************************)
(* C3.  A poll whose every status fetch succeeded with state waiting       *)
(* returns, and when it has returned it has made exactly max_attempts      *)
(* fetches and its one return value is the timed-out outcome.              *)
(***************************************************************************)
C3_AlwaysWaitingTimesOut ==
    /\ <>(pc = "polled")
    /\ []((pc = "polled" /\ only_waiting /\ last_seen \in {"waiting", "none"}) =>
            /\ fetches = max_attempts
            /\ poll_result = PollTimedOut
            /\ returns = 1)

\* max_attempts=3 against a provider that always says waiting: 3 fetches
C3_Witness ==
    /\ pc = "polled"
    /\ only_waiting
    /\ last_seen = "waiting"
    /\ max_attempts = 3
    /\ fetches = 3
    /\ poll_result = PollTimedOut

(***************************************************************************)
(* C4.  A poll that saw waiting on calls 1..N-1 and success on call N has  *)
(* returned after exactly N fetches, 1 <= N <= max_attempts, with the      *)
(* success outcome that carries the record of call N.                      *)
(***************************************************************************)
C4_SuccessOnNthCall ==
    (pc = "polled" /\ only_waiting /\ last_seen = "success") =>
        /\ fetches = attempt + 1
        /\ 1 <= fetches
        /\ fetches <= max_attempts
        /\ poll_result = [success |-> TRUE, data |-> remote[task_id]]
        /\ returns = 1

\* waiting three times, then success with one result URL
C4_Witness ==
    /\ pc = "polled"
    /\ only_waiting
    /\ last_seen = "success"
    /\ max_attempts = SeedDreamMaxAttempts
    /\ fetches = 4
    /\ ResultUrls(poll_result.data) = <<"https://e/out.png">>

(***************************************************************************)
(* C5.  Whatever the provider answers and whatever max_attempts >= 0 is,   *)
(* a poll makes at most max_attempts fetches, returns, and returns once;   *)
(* it stops at the first fetch that reports success or fail; a fetch that  *)
(* fails uses up one attempt and does not end the poll.                    *)
(***************************************************************************)
C5_Bounded ==
    /\ fetches <= max_attempts
    /\ returns <= 1
    /\ (pc = "polled") <=> (returns = 1)
    /\ (pc = "polled") <=> (poll_result # NoResult)
    /\ last_seen \in {"success", "fail"} => pc = "polled"
    /\ fetches = attempt + (IF last_seen \in {"success", "fail"} THEN 1 ELSE 0)
    /\ (pc = "polled" /\ last_seen \notin {"success", "fail"}) =>
            /\ poll_result = PollTimedOut
            /\ fetches = max_attempts

C5_BoundedPoll ==
    /\ <>(returns = 1)
    /\ []C5_Bounded

\* a poll of budget 3 whose last fetch failed: it ended on the budget
C5_Witness ==
    /\ pc = "polled"
    /\ last_seen = "error"
    /\ ~only_errors
    /\ max_attempts = 3
    /\ fetches = 3

(***************************************************************************)
(* C6.  A poll that ended on the exhausted budget leaves the job recorded  *)
(* as timeout, a status other than that of a job whose poll ended on the   *)
(* provider's fail.                                                        *)
(* Fails: the SeedDream handler records "fail" for both, the Qwen handler  *)
(* records neither.                                                        *)
(***************************************************************************)
C6_TimeoutIsRecordedAsTimeout ==
    \A id \in DOMAIN shown :
        TimedOut(id) =>
            /\ JobStatus(StatusOf(id)) = "timeout"
            /\ \A other \in DOMAIN shown :
                   ProviderFailed(other) => StatusOf(other) # StatusOf(id)

(***************************************************************************)
(* C7.  A poll that ended on the provider's state fail returned a failure  *)
(* whose error is the provider's failMsg unchanged, and the job is         *)
(* recorded as failed.                                                     *)
(* Fails: the Qwen handler's failure branch does not touch the ledger.     *)
(***************************************************************************)
C7_ProviderFailIsRecorded ==
    \A id \in DOMAIN shown :
        ProviderFailed(id) =>
            LET r == shown[id].poll_result IN
            /\ ~r.success
            /\ "failMsg" \in DOMAIN r.data => r.error = r.data.failMsg
            /\ JobStatus(StatusOf(id)) = "failed"

(***************************************************************************)
(* C8.  A provider state other than waiting, success and fail is treated   *)
(* as waiting: the poller keeps polling on it, and no ledger entry ever    *)
(* holds a status outside the job status vocabulary.                       *)
(* Fails: Check Status stores the provider's state as it came.             *)
(***************************************************************************)
C8_UnknownStateIsWaiting ==
    /\ (last_seen \notin {"none", "error", "waiting", "success", "fail"}) =>
            (pc = "poll" \/ poll_result = PollTimedOut)
    /\ \A i \in 1..Len(task_history) :
            JobStatus(task_history[i].status) \in JobStatuses

(***************************************************************************)
(* C9.  As claimed: every attempt emits min(attempt/max_attempts, 0.95),   *)
(* the emitted values never decrease, and 1.0 is emitted only after a      *)
(* fetch returned success.                                                 *)
(* Fails: an attempt whose fetch failed emits nothing.                     *)
(* As amended: every attempt whose fetch succeeded emits that value first, *)
(* an attempt whose fetch failed emits nothing, and the rest as claimed.   *)
(***************************************************************************)
\* min(n/m, 0.95) as a fraction
C9_Expected(n, m) == <<Min(n * 100, 95 * m), 100 * m>>

C9_FullOnlyAfterSuccess ==
    /\ (progress_bar # <<>> /\ FracLeq(FullBar, progress_bar)) =>
            (pc = "polled" /\ poll_result.success /\ last_seen = "success")
    /\ \A k \in 1..Len(last_emitted) :
            FracLeq(FullBar, last_emitted[k]) =>
                (pc = "polled" /\ poll_result.success /\ last_seen = "success")

C9_NeverDecreases ==
    (fetches' # fetches) =>
        \A k \in 1..Len(last_emitted') :
            /\ progress_bar # <<>> => FracLeq(progress_bar, last_emitted'[k])
            /\ k > 1 => FracLeq(last_emitted'[k - 1], last_emitted'[k])

C9_EmittedByEveryAttempt ==
    (fetches >= 1) =>
        /\ last_emitted # <<>>
        /\ last_emitted[1] = C9_Expected(fetches, max_attempts)

C9_EmittedBySuccessfulFetch ==
    /\ (fetches >= 1 /\ last_seen # "error") =>
            /\ last_emitted # <<>>
            /\ last_emitted[1] = C9_Expected(fetches, max_attempts)
    /\ (last_seen \in {"none", "error"}) => (last_emitted = <<>>)

C9_ProgressAfterEveryAttempt ==
    /\ [](C9_EmittedByEveryAttempt /\ C9_FullOnlyAfterSuccess)
    /\ [][C9_NeverDecreases]_vars

C9_ProgressAfterEverySuccessfulFetch ==
    /\ [](C9_EmittedBySuccessfulFetch /\ C9_FullOnlyAfterSuccess)
    /\ [][C9_NeverDecreases]_vars

\* the last attempt of a budget of 3, still waiting: the bar is held at 95%
C9_Witness ==
    /\ pc = "poll"
    /\ max_attempts = 3
    /\ fetches = 3
    /\ last_seen = "waiting"
    /\ progress_bar = <<285, 300>>
    /\ ~only_waiting

(***************************************************************************)
(* C10.  As claimed: create_task returns success with the provider's       *)
(* taskId iff the transport status is 200 and the body's code is 200;      *)
(* every other response gives one failure value with a reason, the         *)
(* provider's msg when the body carries one.                               *)
(* Fails: a 200/200 body without taskId is a failure, and the msg of a     *)
(* body that came with another transport status or without taskId is not   *)
(* the reason.                                                             *)
(* As amended: success iff transport status 200, code 200 and data.taskId  *)
(* present; the reason is the provider's msg when the transport status is  *)
(* 200, the code is not 200 and the body carries msg.                      *)
(***************************************************************************)
Called == "result" \in DOMAIN created

Is200(resp) == "raised" \notin DOMAIN resp /\ resp.status_code = 200

Code200(resp) == Is200(resp) /\ Get(resp.body, "code", 0) = 200

HasTaskId(resp) ==
    /\ "raised" \notin DOMAIN resp
    /\ "data" \in DOMAIN resp.body
    /\ "taskId" \in DOMAIN resp.body.data

HasMsg(resp) == "raised" \notin DOMAIN resp /\ "msg" \in DOMAIN resp.body

C10_SuccessIffBoth200 ==
    Called =>
        LET resp == created.response
            result == created.result
        IN  /\ result.success <=> Code200(resp)
            /\ result.success => result.task_id = resp.body.data.taskId
            /\ ~result.success =>
                    /\ DOMAIN result = {"success", "error"}
                    /\ HasMsg(resp) => result.error = resp.body.msg

C10_SuccessIffBoth200AndTaskId ==
    Called =>
        LET resp == created.response
            result == created.result
        IN  /\ result.success <=> (Code200(resp) /\ HasTaskId(resp))
            /\ result.success => result.task_id = resp.body.data.taskId
            /\ ~result.success =>
                    /\ DOMAIN result = {"success", "error"}
                    /\ (Is200(resp) /\ ~Code200(resp) /\ HasMsg(resp)) =>
                            result.error = resp.body.msg

\* the provider refused the task with a message: the message is the reason
C10_Witness ==
    /\ Called
    /\ Is200(created.response)
    /\ ~Code200(created.response)
    /\ created.result = [success |-> FALSE, error |-> "Insufficient credits"]

(***************************************************************************)
(* C11.  A press of Generate whose create_task call failed ends at once    *)
(* and leaves the ledger as it was, makes no status fetch and leaves       *)
(* total_tasks as it was.                                                  *)
(* Fails: create_task counts the task (line 335) before it reads           *)
(* data["data"]["taskId"], so a 200/200 body without taskId is a failure   *)
(* that has raised total_tasks.                                            *)
(***************************************************************************)
C11_CreateFailureChangesNothing ==
    [][(presses' = presses + 1 /\ ~created'.result.success) =>
            /\ pc' = "idle"
            /\ task_history' = task_history
            /\ fetches' = 0
            /\ stats'.total_tasks = stats.total_tasks]_vars

(***************************************************************************)
(* C13.  A poll whose every fetch failed does not return the outcome of a  *)
(* poll whose every fetch said waiting (the timed-out outcome of C3).      *)
(* Fails: a failed fetch only writes the status line, which the timeout    *)
(* overwrites; both polls return PollTimedOut.                             *)
(***************************************************************************)
C13_FetchFailuresShowInOutcome ==
    (pc = "polled" /\ only_errors /\ fetches >= 1 /\ last_seen = "error") =>
        poll_result # PollTimedOut

(***************************************************************************)
(* C12.  One call of create_task, check_task_status, create_app_folder,    *)
(* upload_to_gdrive, list_gdrive_images or delete_gdrive_file issues each  *)
(* of its requests at most once, whether the request is answered or        *)
(* raises: no two requests of a step come from the same call of the same   *)
(* function and are the same request.                                      *)
(***************************************************************************)
C12_Functions ==
    {"create_task", "check_task_status", "create_app_folder",
     "upload_to_gdrive", "list_gdrive_images", "delete_gdrive_file"}

C12_OneRequestPerCall ==
    \A i, j \in 1..Len(requests) :
        (/\ i < j
         /\ requests[i].by \in C12_Functions
         /\ requests[i].by = requests[j].by
         /\ requests[i].call = requests[j].call) =>
            requests[i].api # requests[j].api

\* a result loop of two URLs whose first upload found no folder, searched
\* for it, failed to create it, and whose second upload went through
C12_Witness ==
    /\ Len(reports) = 2
    /\ ~reports[1].uploaded
    /\ reports[2].uploaded
    /\ \E i \in 1..Len(requests) :
        /\ requests[i].by = "create_app_folder"
        /\ requests[i].api = "files.create"
        /\ requests[i].failed
    /\ \E i \in 1..Len(requests) : requests[i].by = "list_gdrive_images"

(***************************************************************************)
(* C14.  As claimed: while Drive holds a non-trashed folder of the app     *)
(* folder's name, a call of create_app_folder issues no folder-create      *)
(* request and returns that folder's id; while it holds none, a call       *)
(* issues exactly one create request and leaves a folder behind.           *)
(* Fails: a call whose search raises creates nothing and returns None, and *)
(* a call whose create raises leaves no folder.                            *)
(* As amended: the same for a call whose requests are answered; a call     *)
(* whose search raises issues no create request and returns None, a call   *)
(* whose create raises returns None and leaves no folder.                  *)
(***************************************************************************)
\* the app folder Drive holds, None when it holds none
AppFolderId(d) ==
    LET files == SelectSeq(d, IsAppFolder)
    IN  IF files = <<>> THEN None ELSE files[1].id

\* the requests of one call of create_app_folder, among reqs
C14_Issued(reqs, call, api) ==
    {i \in 1..Len(reqs) :
        /\ reqs[i].by = "create_app_folder"
        /\ reqs[i].call = call
        /\ reqs[i].api = api}

C14_Answered(reqs, call, api) ==
    \E i \in C14_Issued(reqs, call, api) : ~reqs[i].failed

C14_Idempotent ==
    [][\A k \in 1..Len(returned') :
         LET e == returned'[k]
             creates == Cardinality(C14_Issued(requests', e.call, "files.create"))
         IN  e.by = "create_app_folder" =>
                IF AppFolderId(drive) # None
                THEN creates = 0 /\ e.ret = AppFolderId(drive)
                ELSE creates = 1 /\ AppFolderId(drive') # None]_vars

\* the folders of the app folder's name are the ones Drive held and the
\* ones that answered create requests made
C14_FoldersAreTheOnesMade ==
    Len(SelectSeq(drive', IsAppFolder)) =
        Len(SelectSeq(drive, IsAppFolder)) +
        Cardinality({i \in 1..Len(requests') :
                        /\ requests'[i].by = "create_app_folder"
                        /\ requests'[i].api = "files.create"
                        /\ ~requests'[i].failed})

C14_IdempotentWhenAnswered ==
    [][\A k \in 1..Len(returned') :
         LET e == returned'[k]
             creates == Cardinality(C14_Issued(requests', e.call, "files.create"))
             searched == C14_Answered(requests', e.call, "files.list")
             made == C14_Answered(requests', e.call, "files.create")
         IN  e.by = "create_app_folder" =>
                /\ Cardinality(C14_Issued(requests', e.call, "files.list")) = 1
                /\ ~searched => (creates = 0 /\ e.ret = None)
                /\ (searched /\ AppFolderId(drive) # None) =>
                        /\ creates = 0
                        /\ e.ret = AppFolderId(drive)
                /\ (searched /\ AppFolderId(drive) = None) =>
                        /\ creates = 1
                        /\ IF made
                           THEN /\ e.ret # None
                                /\ e.ret = AppFolderId(drive')
                           ELSE e.ret = None
                /\ C14_FoldersAreTheOnesMade]_vars

\* a second connection: the folder the first one made is found, and nothing
\* is created
C14_Witness ==
    /\ authenticated
    /\ \E k \in 1..Len(returned) :
        /\ returned[k].by = "create_app_folder"
        /\ returned[k].call = 1
        /\ returned[k].ret = "id2"
    /\ drive[1].trashed
    /\ C14_Issued(requests, 1, "files.list") # {}
    /\ C14_Issued(requests, 1, "files.create") = {}

(***************************************************************************)
(* C15.  No upload and no listing names a folder that was trashed out of   *)
(* band before the step began: the folder is looked up at the provider     *)
(* every time it is needed.                                                *)
(* Fails: upload_to_gdrive and list_gdrive_images take the folder id from  *)
(* st.session_state.gdrive_folder_id when it is set, and look nothing up.  *)
(***************************************************************************)
C15_Trashed(d, id) == \E k \in 1..Len(d) : d[k].id = id /\ d[k].trashed

C15_FolderIsRecheckedEveryTime ==
    [][\A i \in 1..Len(requests') :
         LET r == requests'[i] IN
         /\ (r.by = "upload_to_gdrive" /\ r.api = "files.create") =>
                ~C15_Trashed(drive, r.parents[1])
         /\ (r.by = "list_gdrive_images") => ~C15_Trashed(drive, r.parent)]_vars

(***************************************************************************)
(* C16.  An upload is the file create and then a grant of public read      *)
(* permission, in that order; it returns a usable asset only if both were  *)
(* answered, and if the create was answered and the grant was not it       *)
(* returns an error that carries the id of the file created.               *)
(* Fails: upload_to_gdrive issues no permission request at all and         *)
(* returns the asset once the create is answered.                          *)
(***************************************************************************)
C16_Answered(call, api) ==
    \E i \in 1..Len(requests) :
        /\ requests[i].by = "upload_to_gdrive"
        /\ requests[i].call = call
        /\ requests[i].api = api
        /\ ~requests[i].failed

C16_UploadIsCreateThenGrant ==
    /\ \A i \in 1..Len(requests) :
        (/\ requests[i].by = "upload_to_gdrive"
         /\ requests[i].api = "files.create"
         /\ ~requests[i].failed) =>
            \E j \in (i + 1)..Len(requests) :
                /\ requests[j].by = "upload_to_gdrive"
                /\ requests[j].call = requests[i].call
                /\ requests[j].api = "permissions.create"
    /\ \A k \in 1..Len(returned) :
        LET e == returned[k] IN
        e.by = "upload_to_gdrive" =>
            /\ (e.ret # NoneResult /\ "error" \notin DOMAIN e.ret) =>
                    /\ C16_Answered(e.call, "files.create")
                    /\ C16_Answered(e.call, "permissions.create")
            /\ (/\ C16_Answered(e.call, "files.create")
                /\ ~C16_Answered(e.call, "permissions.create")) =>
                    /\ "error" \in DOMAIN e.ret
                    /\ "file_id" \in DOMAIN e.ret

(***************************************************************************)
(* C17.  When the SeedDream handler ends a successful poll with a storage  *)
(* session and auto-upload on, it has called upload_to_gdrive once per     *)
(* result URL, in the order of the list, whatever the earlier calls        *)
(* returned, and has reported each URL's outcome: uploaded iff its call    *)
(* returned an asset; the assets are appended to generated_images in the   *)
(* same order.                                                             *)
(***************************************************************************)
C17_Uploads(log) == SelectSeq(log, LAMBDA e : e.by = "upload_to_gdrive")

C17_Assets(ups) ==
    LET done == SelectSeq(ups, LAMBDA e : e.ret # NoneResult)
    IN  [k \in 1..Len(done) |-> done[k].ret]

C18_NoArchivalRequest(reqs) ==
    \A i \in 1..Len(reqs) : reqs[i].by # "upload_to_gdrive"

C18_ArchivalOnlyInSession ==
    /\ [](upload_queue = <<>>)
    /\ [](service = None => C18_NoArchivalRequest(requests))
    /\ [][service = None => C18_NoArchivalRequest(requests')]_vars

\* a successful SeedDream job shown with no session: its two results were
\* fetched for the download buttons, nothing was archived or queued
C18_Witness ==
    /\ service = None
    /\ ~authenticated
    /\ pc = "idle"
    /\ Len(requests) = 2
    /\ \A i \in 1..Len(requests) : requests[i].by = "download_button"
    /\ reports = <<>>
    /\ generated_images = <<>>
    /\ upload_queue = <<>>

(***************************************************************************)
(* C19.  As claimed: list_gdrive_images returns exactly the non-trashed    *)
(* files of the folder whose MIME type is an image type, newest first;     *)
(* from a folder of 3 PNG files and 1 text file, the 3 PNG files.          *)
(* Fails: an image/gif file is not listed, of more than 100 files the      *)
(* oldest are not listed, and a listing whose request raises is empty.     *)
(* As amended: when its request is answered it returns the non-trashed     *)
(* files of the folder whose MIME type is image/png, image/jpeg or         *)
(* image/webp, newest first, the newest 100 when there are more; when the  *)
(* request raises it returns the empty list.                               *)
(***************************************************************************)
\* the image types a file of the model may have
C19_ImageTypes == ImageMimes \cup {"image/gif"}

\* the non-trashed files of folder whose MIME type is one of types
C19_Files(folder, types) ==
    {j \in 1..Len(drive) :
        /\ ~drive[j].deleted
        /\ ~drive[j].trashed
        /\ drive[j].parents = <<folder>>
        /\ drive[j].mimeType \in types}

\* the listing request of call number call
C19_Request(call) ==
    CHOOSE i \in 1..Len(requests) :
        requests[i].by = "list_gdrive_images" /\ requests[i].call = call

C19_NewestFirst(out) ==
    \A n \in 1..(Len(out) - 1) : out[n].createdTime > out[n + 1].createdTime

C20_Status(option) ==
    CASE option = "Success" -> "success"
      [] option = "Waiting" -> "waiting"
      [] option = "Failed" -> "failed"

C20_Model(option) ==
    CASE option = "SeedDream V4" -> "bytedance/seedream-v4-edit"
      [] option = "Qwen Edit" -> "qwen/image-edit"

\* the places of the ledger the query is to show
C20_Matching(v) ==
    {i \in 1..Len(task_history) :
        /\ v.filter_status # "All Status" =>
                JobStatus(task_history[i].status) = C20_Status(v.filter_status)
        /\ v.filter_model # "All Models" =>
                task_history[i].model = C20_Model(v.filter_model)}

C20_Max(S) == CHOOSE i \in S : \A j \in S : j <= i

C20_QueryShowsMatching ==
    history_view # NoView =>
        LET v == history_view
            shows == v.filtered
            wanted == C20_Matching(v)
        IN  /\ Len(shows) = Cardinality(wanted)
            /\ \A i \in wanted : \E n \in 1..Len(shows) : shows[n] = task_history[i]
            /\ \A n \in 1..Len(shows) : \E i \in wanted : shows[n] = task_history[i]
            /\ (v.sort_order = "Newest First" /\ wanted # {}) =>
                    /\ shows[1] = task_history[C20_Max(wanted)]
                    /\ \A n \in 1..(Len(shows) - 1) :
                            shows[n].timestamp > shows[n + 1].timestamp
            /\ v.sort_order = "Oldest First" =>
                    \A n \in 1..(Len(shows) - 1) :
                        shows[n].timestamp < shows[n + 1].timestamp

C20_HistoryQuery ==
    /\ []C20_QueryShowsMatching
    /\ [][history_view' # NoView => task_history' = task_history]_vars

\* two SeedDream jobs that failed, queried for Failed, newest first
C20_Witness ==
    /\ history_view # NoView
    /\ history_view.filter_status = "Failed"
    /\ history_view.filter_model = "SeedDream V4"
    /\ history_view.sort_order = "Newest First"
    /\ Len(history_view.filtered) = 2
    /\ history_view.filtered[1].timestamp = 2
    /\ history_view.filtered[1].status = "fail"

(***************************************************************************)
(* C21.  When a handler is done with the poller's return value, whichever  *)
(* form submitted the job, the job's ledger entry holds the terminal       *)
(* status of that outcome: success for a success, failed or timeout for    *)
(* a failure, and never waiting.                                           *)
(* Fails: the Qwen handler's failure branch leaves the entry at waiting.   *)
(***************************************************************************)
C21_PollOutcomeIsRecorded ==
    [][(pc = "polled" /\ pc' = "idle") =>
         LET i == FirstWithId(task_history', task_id)
             s == JobStatus(task_history'[i].status)
         IN  /\ i # 0
             /\ IF poll_result.success
                THEN s = "success"
                ELSE s \in {"failed", "timeout"}]_vars

(***************************************************************************)
(* C22.  A step changes the recorded status of a job only when it applies  *)
(* the outcome of that job's poll: the step is the end of the handler      *)
(* whose poller has just returned for that job.                            *)
(* Fails: Check Status writes the status of the entry it is pressed on.    *)
(***************************************************************************)
C22_OnlyThePollWritesStatus ==
    [][\A i \in 1..Len(task_history) :
         (i <= Len(task_history') /\ task_history'[i].status # task_history[i].status)
            => (pc = "polled" /\ task_history[i].task_id = task_id)]_vars

(***************************************************************************)
(* C23.  A successful submit appends exactly one entry at the end of the   *)
(* task ledger, a waiting entry for the new task id, whether or not the    *)
(* ledger holds an entry of the same model and prompt already; every other *)
(* step (a failed submit, the poll, the end of a handler, Check Status)    *)
(* keeps the ledger's length, and no step removes or reorders entries:     *)
(* each entry stays at its place with its task id, model, prompt and       *)
(* timestamp.                                                              *)
(***************************************************************************)
\* the step ran create_task and it returned success
C23_Submitted == pc = "idle" /\ created' # NoCall /\ created'.result.success

C23_SameJob(a, b) ==
    /\ a.task_id = b.task_id
    /\ a.model = b.model
    /\ a.prompt = b.prompt
    /\ a.timestamp = b.timestamp

C23_SubmitAppendsOne ==
    [][/\ \A i \in 1..Len(task_history) :
            /\ i <= Len(task_history')
            /\ C23_SameJob(task_history'[i], task_history[i])
       /\ IF C23_Submitted
          THEN /\ Len(task_history') = Len(task_history) + 1
               /\ task_history'[Len(task_history')].task_id = created'.result.task_id
               /\ task_history'[Len(task_history')].status = "waiting"
               /\ \A i \in 1..Len(task_history) :
                     task_history'[i] = task_history[i]
          ELSE Len(task_history') = Len(task_history)]_vars

\* the same form submitted the same prompt twice: two entries, two jobs
C23_Witness ==
    /\ Len(task_history) = 2
    /\ task_history[1].model = task_history[2].model
    /\ task_history[1].prompt = task_history[2].prompt
    /\ task_history[1].task_id # task_history[2].task_id
    /\ task_history[1].status = "success"
    /\ task_history[2].status = "waiting"

(***************************************************************************)
(* C24.  After a step in which delete_gdrive_file returned True, the       *)
(* cached library listing, which is what the next render of the Library    *)
(* tab shows, does not hold the deleted file.                              *)
(* Fails: the delete buttons rerun the script without touching the cache,  *)
(* and the Library tab reloads only an empty cache.                        *)
(***************************************************************************)
C24_DeleteInvalidatesListing ==
    \A n \in 1..Len(returned) :
        (returned[n].by = "delete_gdrive_file" /\ returned[n].ret = TRUE) =>
            \A k \in 1..Len(library_images) :
                library_images[k].id # returned[n].args.file_id

(***************************************************************************)
(* C25.  A call of authenticate_with_service_account that fails, on a      *)
(* service account file without a key or on the client's construction      *)
(* raising, returns False with a message that carries the cause, and the   *)
(* step leaves authenticated, service and credentials as they were.        *)
(***************************************************************************)
C25_Causes ==
    {"Service account info was not in the expected format",
     "name: drive  version: v3"}

C25_FailedAuthenticateChangesNothing ==
    [][\A k \in 1..Len(returned') :
         (/\ returned'[k].by = "authenticate_with_service_account"
          /\ ~returned'[k].ret[1]) =>
            /\ \E cause \in C25_Causes :
                    returned'[k].ret[2] = "Authentication failed: " \o cause
            /\ authenticated' = authenticated
            /\ service' = service
            /\ credentials' = credentials]_vars

\* a key file whose client could not be built, after a disconnect
C25_Witness ==
    /\ \E k \in 1..Len(returned) :
        /\ returned[k].by = "authenticate_with_service_account"
        /\ ~returned[k].ret[1]
        /\ "private_key" \in DOMAIN returned[k].args.service_account_json
    /\ ~authenticated
    /\ service = None
    /\ credentials = None
    /\ gdrive_folder_id # None

(***************************************************************************)
(* C26.  The poller sleeps the delay once after every attempt that saw     *)
(* neither success nor fail, an attempt whose fetch failed included, and   *)
(* not after the attempt that saw success or fail; a poll that timed out   *)
(* has slept max_attempts times, max_attempts x delay in all.              *)
(***************************************************************************)
\* the time the running poll has slept, each sleep being time.sleep(delay)
C26_Waited == sleeps * Delay

C26_Ended == last_seen \in {"success", "fail"}

C26_SleepsMatchAttempts ==
    /\ sleeps = fetches - (IF C26_Ended THEN 1 ELSE 0)
    /\ (pc = "polled" /\ poll_result = PollTimedOut) =>
            /\ sleeps = max_attempts
            /\ C26_Waited = max_attempts * 2

C26_OneDelayPerOpenAttempt ==
    /\ []C26_SleepsMatchAttempts
    /\ [][fetches' = fetches + 1 =>
            sleeps' = sleeps + (IF last_seen' \in {"success", "fail"} THEN 0 ELSE 1)]_vars

\* a poll of budget 3 that timed out over waiting answers and failed fetches
C26_Witness ==
    /\ pc = "polled"
    /\ poll_result = PollTimedOut
    /\ max_attempts = 3
    /\ ~only_waiting
    /\ ~only_errors
    /\ last_seen = "error"
    /\ sleeps = 3

(***************************************************************************)
(* C27.  In every state of a session the statistics satisfy                *)
(* successful_tasks + failed_tasks <= total_tasks.                         *)
(* Fails: the SeedDream form counts a failed task for a submit that        *)
(* create_task refused, which total_tasks never counted.                   *)
(***************************************************************************)
C27_FinishedAtMostTotal ==
    stats.successful_tasks + stats.failed_tasks <= stats.total_tasks

(***************************************************************************)
(* C28.  In every state of a session successful_tasks <= total_tasks, so   *)
(* the success rate shown is at most 100%, and the task ledger has at most *)
(* total_tasks entries.                                                    *)
(***************************************************************************)
\* success_rate of line 521, as a percentage
C28_SuccessRateAtMost100 ==
    stats.total_tasks > 0 =>
        stats.successful_tasks * 100 <= 100 * stats.total_tasks

C28_SuccessesAndEntriesAtMostTotal ==
    /\ stats.successful_tasks <= stats.total_tasks
    /\ C28_SuccessRateAtMost100
    /\ Len(task_history) <= stats.total_tasks

\* two submits counted, one without a task id and so without an entry, the
\* other polled to success
C28_Witness ==
    /\ pc = "idle"
    /\ stats.total_tasks = 2
    /\ stats.successful_tasks = 1
    /\ Len(task_history) = 1
    /\ task_history[1].status = "success"

(***************************************************************************)
(* C29.  A handler that applies the outcome of the poll of job J changes   *)
(* the status of one ledger entry, the first whose task_id is J, and       *)
(* nothing else of the ledger: every other entry and every other field of  *)
(* that entry is as before, so the entries of jobs submitted earlier are   *)
(* not altered by a later job.                                             *)
(***************************************************************************)
\* the step is the end of a handler that writes the outcome of its poll:
\* the SeedDream handler always, the Qwen handler on success
C29_Applies == pc = "polled" /\ (form = "seedream" \/ poll_result.success)

C29_Changed ==
    {k \in 1..Len(task_history) : task_history'[k] # task_history[k]}

C29_OutcomeChangesOneStatus ==
    [][(pc = "polled" /\ pc' = "idle") =>
         LET i == FirstWithId(task_history, task_id) IN
         /\ Len(task_history') = Len(task_history)
         /\ i \in 1..Len(task_history)
         /\ C29_Changed \subseteq {i}
         /\ task_history'[i] = [task_history[i] EXCEPT !.status = task_history'[i].status]
         /\ C29_Applies =>
                /\ C29_Changed = {i}
                /\ task_history'[i].status =
                        (IF poll_result.success THEN "success" ELSE "fail")]_vars

\* the first job failed, the second succeeded: each entry holds its own outcome
C29_Witness ==
    /\ pc = "idle"
    /\ Len(task_history) = 2
    /\ task_history[1].status = "fail"
    /\ task_history[2].status = "success"
    /\ task_history[2].task_id \in DOMAIN shown
    /\ shown[task_history[2].task_id].poll_result.success

(***************************************************************************)
(* C30.  Disconnect takes the session to not authenticated with no service *)
(* and no credentials, and leaves the cached folder id, the cached library *)
(* listing and everything else of the session as they were.  A later       *)
(* connection whose folder lookup returns None keeps the cached folder id, *)
(* and every upload made while a folder id is cached names that folder.    *)
(***************************************************************************)
\* the step is a press of Disconnect
C30_Disconnects == authenticated /\ ~authenticated'

C30_DisconnectFrame ==
    C30_Disconnects =>
        /\ service' = None
        /\ credentials' = None
        /\ gdrive_folder_id' = gdrive_folder_id
        /\ library_images' = library_images
        /\ UNCHANGED <<auto_upload, generated_images, upload_queue, drive,
                       task_history, stats>>

\* the step connected and its create_app_folder returned None
C30_LookupFailed ==
    /\ ~authenticated
    /\ authenticated'
    /\ \E k \in 1..Len(returned') :
        /\ returned'[k].by = "create_app_folder"
        /\ returned'[k].call = 1
        /\ returned'[k].ret = None

C30_UploadsNameCachedFolder ==
    gdrive_folder_id # None =>
        \A k \in 1..Len(requests') :
            (/\ requests'[k].by = "upload_to_gdrive"
             /\ requests'[k].api = "files.create") =>
                requests'[k].parents = <<gdrive_folder_id>>

C30_DisconnectKeepsCache ==
    [][/\ C30_DisconnectFrame
       /\ (C30_LookupFailed /\ gdrive_folder_id # None) =>
                gdrive_folder_id' = gdrive_folder_id
       /\ C30_UploadsNameCachedFolder]_vars

\* a second connection whose folder search raised and in which no lookup
\* found a folder: the session is authenticated and holds the folder id of
\* the connection before
C30_Witness ==
    /\ authenticated
    /\ gdrive_folder_id = "id1"
    /\ \E k \in 1..Len(returned) :
        /\ returned[k].by = "create_app_folder"
        /\ returned[k].call = 1
    /\ \A k \in 1..Len(returned) :
        returned[k].by = "create_app_folder" => returned[k].ret = None
    /\ \E k \in 1..Len(requests) :
        /\ requests[k].by = "create_app_folder"
        /\ requests[k].api = "files.list"
        /\ requests[k].failed

====
